---- MODULE Spec2Model ----
(***************************************************************************)
(* A model of the note-link completion language server                     *)
(* (tucker-m/obsidian-like-autocomplete, server.ts).                       *)
(*                                                                         *)
(* Strings are sequences of one-character strings; offsets are 0-based as  *)
(* in the source, sequence indices are 1-based.                            *)
(***************************************************************************)
EXTENDS Integers, Sequences, FiniteSets, TLC

VARIABLES
    phase,                  \* "created" | "initialize" | "initialized"
    rootUri,                \* let rootUri
    hasConfigurationCapability, \* let hasConfigurationCapability
    notes,                  \* let notes: Array<Note>
    documents,              \* the text document manager: sequence of [uri, text]
    pc,                     \* "idle" | "scan" | "returned": where the request handler is
    docText,                \* onCompletion: const docText
    positionOffset,         \* onCompletion: const positionOffset
    currentPosition,        \* onCompletion: let currentPosition
    currentChar,            \* onCompletion: let currentChar
    afterHeadingMarker,     \* onCompletion: let afterHeadingMarker
    headingMarkerPosition,  \* onCompletion: let headingMarkerPosition
    firstClosingBraceHit,   \* onCompletion: let firstClosingBraceHit
    firstOpeningBraceHit,   \* onCompletion: let firstOpeningBraceHit
    result,                 \* the completion list returned last
    returnedBy,             \* which return statement produced result
    minRead,                \* history: lowest offset at which docText was read
    lastText                \* history: identifier -> text upserted last

vars == <<phase, rootUri, hasConfigurationCapability, notes, documents, pc,
          docText,
          positionOffset, currentPosition, currentChar, afterHeadingMarker,
          headingMarkerPosition, firstClosingBraceHit, firstOpeningBraceHit,
          result, returnedBy, minRead, lastText>>

scanVars == <<pc, docText, positionOffset, currentPosition, currentChar,
              afterHeadingMarker, headingMarkerPosition, firstClosingBraceHit,
              firstOpeningBraceHit, result, returnedBy, minRead>>

-----------------------------------------------------------------------------
(* Bounds of the model.                                                    *)

\* longest document text of the scanner specification
MaxLen == 5
\* longest document text of the heading-extraction specification
MaxHeadLen == 7
\* how far below offset 0 the model follows a scan
MaxUnderrun == 2
\* most documents open at once in the event specification
MaxOpen == 2
\* most markdown files of a small walked directory
MaxSmallDir == 48

-----------------------------------------------------------------------------
(* JavaScript string primitives.                                           *)

\* the value of docText[i] for an index outside the string
Undefined == "undefined"

Min(a, b) == IF a < b THEN a ELSE b
Max(a, b) == IF a > b THEN a ELSE b

\* s[i], 0-based; undefined outside 0 .. length-1
CharAt(s, i) == IF i >= 0 /\ i < Len(s) THEN s[i + 1] ELSE Undefined

\* s.substring(a, b): both ends clamped to 0 .. length, swapped when a > b
Substring(s, a, b) ==
    LET ca == Max(0, Min(a, Len(s)))
        cb == Max(0, Min(b, Len(s)))
        lo == Min(ca, cb)
        hi == Max(ca, cb)
    IN  SubSeq(s, lo + 1, hi)

\* s.substr(from) for from >= 0
SubstrFrom(s, from) == SubSeq(s, Min(from, Len(s)) + 1, Len(s))

\* s.substr(0, n)
SubstrTo(s, n) == SubSeq(s, 1, Max(0, Min(n, Len(s))))

\* does pat occur in s at 0-based offset i
OccursAt(s, pat, i) ==
    /\ i >= 0
    /\ i + Len(pat) =< Len(s)
    /\ SubSeq(s, i + 1, i + Len(pat)) = pat

\* s.indexOf(pat): first offset, -1 when absent
IndexOf(s, pat) ==
    LET hits == {i \in 0..Len(s) : OccursAt(s, pat, i)}
    IN  IF hits = {} THEN -1 ELSE CHOOSE i \in hits : \A j \in hits : i =< j

\* s.lastIndexOf(pat): last offset, -1 when absent
LastIndexOf(s, pat) ==
    LET hits == {i \in 0..Len(s) : OccursAt(s, pat, i)}
    IN  IF hits = {} THEN -1 ELSE CHOOSE i \in hits : \A j \in hits : i >= j

StartsWith(s, pat) == OccursAt(s, pat, 0)

EndsWith(s, pat) == Len(pat) =< Len(s) /\ OccursAt(s, pat, Len(s) - Len(pat))

\* s.replace(pat, rep) with a string pattern: the first occurrence only
Replace(s, pat, rep) ==
    LET i == IndexOf(s, pat)
    IN  IF i = -1 THEN s
        ELSE SubSeq(s, 1, i) \o rep \o SubSeq(s, i + Len(pat) + 1, Len(s))

\* the characters String.prototype.trim removes, WhiteSpace and
\* LineTerminator of ECMAScript: space, tab, line feed, carriage return, form
\* feed, and, written as the characters themselves, U+000B (vertical tab),
\* U+00A0 (no-break space), U+FEFF (byte order mark) and U+1680 (a space
\* separator).  The other space separators (U+2000 .. U+200A, U+202F, U+205F,
\* U+3000) and the line terminators U+2028 and U+2029 are removed by trim too;
\* a string of this module cannot hold them.
WhiteSpace == {" ", "\t", "\n", "\r", "\f", "", " ", "﻿", " "}

RECURSIVE TrimStart(_)
TrimStart(s) ==
    IF s # <<>> /\ Head(s) \in WhiteSpace THEN TrimStart(Tail(s)) ELSE s

RECURSIVE TrimEnd(_)
TrimEnd(s) ==
    IF s # <<>> /\ s[Len(s)] \in WhiteSpace
    THEN TrimEnd(SubSeq(s, 1, Len(s) - 1)) ELSE s

\* s.trim()
Trim(s) == TrimEnd(TrimStart(s))

\* s.split('\n')
RECURSIVE Split(_)
Split(s) ==
    LET i == IndexOf(s, <<"\n">>)
    IN  IF i = -1 THEN <<s>>
        ELSE <<SubSeq(s, 1, i)>> \o Split(SubSeq(s, i + 2, Len(s)))

-----------------------------------------------------------------------------
(* findHeadingsInDocument                                                  *)

\* characters the "." of a regular expression does not match
LineTerminators == {"\n", "\r"}

\* number of "#" at the start of line
RECURSIVE LeadingHashes(_)
LeadingHashes(line) ==
    IF line # <<>> /\ Head(line) = "#" THEN 1 + LeadingHashes(Tail(line)) ELSE 0

\* offset just past the longest run of "." characters that starts at offset i
RECURSIVE DotRunEnd(_, _)
DotRunEnd(line, i) ==
    IF i < Len(line) /\ line[i + 1] \notin LineTerminators
    THEN DotRunEnd(line, i + 1) ELSE i

\* re.exec(line) for re = /^(#+) (.+)/g whose lastIndex is lastIndex: the text
\* of lineMatches?.[0] ?? '' and the lastIndex the call leaves behind.  The
\* search starts at lastIndex, and "^" (no m flag) matches at offset 0 only.
ReExec(line, lastIndex) ==
    LET k == LeadingHashes(line)
        e == DotRunEnd(line, k + 1)
    IN  IF lastIndex = 0 /\ k >= 1 /\ CharAt(line, k) = " " /\ e > k + 1
        THEN [match |-> SubSeq(line, 1, e), lastIndex |-> e]
        ELSE [match |-> <<>>, lastIndex |-> 0]

\* the callback of textArrayOnNewlines.map, the regular expression shared
\* by all the lines of one call
RECURSIVE MapLines(_, _)
MapLines(lines, lastIndex) ==
    IF lines = <<>> THEN <<>>
    ELSE LET r == ReExec(Head(lines), lastIndex)
             firstMatch == Trim(Replace(r.match, <<"#">>, <<>>))
         IN  <<firstMatch>> \o MapLines(Tail(lines), r.lastIndex)

\* matches.filter((elem) => elem !== '')
RECURSIVE FilterNonEmpty(_)
FilterNonEmpty(ms) ==
    IF ms = <<>> THEN <<>>
    ELSE (IF Head(ms) # <<>> THEN <<Head(ms)>> ELSE <<>>)
         \o FilterNonEmpty(Tail(ms))

\* the list findHeadingsInDocument hands to addToNote
FindHeadingsInDocument(text) == FilterNonEmpty(MapLines(Split(text), 0))

-----------------------------------------------------------------------------
(* addNoteToList                                                           *)

extensionToRemove == <<".", "m", "d">>

\* the filename addNoteToList derives from a document's uri
NoteFilename(root, uri) ==
    LET f0 == Replace(uri, root, <<>>)
        f1 == IF EndsWith(f0, extensionToRemove)
              THEN SubstrTo(f0, LastIndexOf(f0, extensionToRemove))
              ELSE f0
    IN  IF StartsWith(f1, <<"/">>) THEN SubstrFrom(f1, 1) ELSE f1

\* notes.find((elem) => elem.filename === filename): index of the first, 0 if none
FindNote(ns, filename) ==
    LET hits == {i \in 1..Len(ns) : ns[i].filename = filename}
    IN  IF hits = {} THEN 0 ELSE CHOOSE i \in hits : \A j \in hits : i =< j

\* addHeadingsToNote as it would be if the level counted the "#" characters
\* of the line (the title keeps all of them but the first)
AddHeadingsToNoteCounting(headings) ==
    [i \in 1..Len(headings) |->
        [title |-> headings[i], level |-> 1 + LeadingHashes(headings[i])]]

\* addHeadingsToNote: headings.map(heading => ({title: heading, level: 1}))
AddHeadingsToNote(headings) ==
    [i \in 1..Len(headings) |-> [title |-> headings[i], level |-> 1]]

\* addNoteToList as it would be if addHeadingsToNote pushed the new headings
\* onto the note's list instead of assigning the list
AddNoteToListMerging(ns, root, uri, text) ==
    LET filename == NoteFilename(root, uri)
        existing == FindNote(ns, filename)
        pushed   == IF existing = 0
                    THEN Append(ns, [filename |-> filename, headings |-> <<>>])
                    ELSE ns
        at       == IF existing = 0 THEN Len(pushed) ELSE existing
    IN  [pushed EXCEPT ![at].headings =
            @ \o AddHeadingsToNote(FindHeadingsInDocument(text))]

\* addNoteToList as an observer would find the array if the function were
\* suspended before findHeadingsInDocument called addToNote: a new note is
\* pushed with its empty list, an existing one keeps the list it had
AddNoteToListSuspended(ns, root, uri, text) ==
    LET filename == NoteFilename(root, uri)
        existing == FindNote(ns, filename)
    IN  IF existing = 0
        THEN Append(ns, [filename |-> filename, headings |-> <<>>])
        ELSE ns

\* addNoteToList as it would be without the test of existingNote: the note
\* is pushed every time
AddNoteToListAlwaysPushing(ns, root, uri, text) ==
    Append(ns, [filename |-> NoteFilename(root, uri),
                headings |-> AddHeadingsToNote(FindHeadingsInDocument(text))])

\* the notes array after addNoteToList({uri, getText: () => text})
AddNoteToList(ns, root, uri, text) ==
    LET filename == NoteFilename(root, uri)
        existing == FindNote(ns, filename)
        pushed   == IF existing = 0
                    THEN Append(ns, [filename |-> filename, headings |-> <<>>])
                    ELSE ns
        at       == IF existing = 0 THEN Len(pushed) ELSE existing
    IN  [pushed EXCEPT ![at].headings =
            AddHeadingsToNote(FindHeadingsInDocument(text))]

\* docs.forEach(addNoteToList) for a sequence of [uri, text]
\* e, once v has its value: the steps of a forEach run one after the other,
\* each on the values the one before left.  (TLC evaluates the arguments of
\* an operator when they are first used; without the test a long forEach
\* would be a chain of pending arguments as deep as the sequence is long.)
After(v, e) == IF v = v THEN e ELSE e

\* (the first half of docs is visited, then the second, so that a long
\* sequence does not nest the evaluation as deep as it is long)
RECURSIVE AddAllToList(_, _, _)
AddAllToList(ns, root, docs) ==
    IF docs = <<>> THEN ns
    ELSE IF Len(docs) = 1
    THEN AddNoteToList(ns, root, docs[1].uri, docs[1].text)
    ELSE LET half  == Len(docs) \div 2
             first == AddAllToList(ns, root, SubSeq(docs, 1, half))
         IN  After(first, AddAllToList(first, root,
                                       SubSeq(docs, half + 1, Len(docs))))

\* history: the text upserted last under each filename
RecordText(lt, root, uri, text) ==
    LET f == NoteFilename(root, uri)
    IN  [g \in DOMAIN lt \cup {f} |-> IF g = f THEN text ELSE lt[g]]

RECURSIVE RecordAllTexts(_, _, _)
RecordAllTexts(lt, root, docs) ==
    IF docs = <<>> THEN lt
    ELSE IF Len(docs) = 1
    THEN RecordText(lt, root, docs[1].uri, docs[1].text)
    ELSE LET half  == Len(docs) \div 2
             first == RecordAllTexts(lt, root, SubSeq(docs, 1, half))
         IN  After(first, RecordAllTexts(first, root,
                                         SubSeq(docs, half + 1, Len(docs))))

-----------------------------------------------------------------------------
(* getAllFiles.  A file system is [dirs, texts]: dirs maps a directory path *)
(* to what readdirSync lists there, a sequence of [name, kind] with kind    *)
(* "file", "dir" or "symlink"; texts maps a file path to its content.       *)

\* the ceiling getAllFiles compares count with
CountCeiling == 1000

\* the directory onInitialized walks
DiscoveryDir ==
    <<"/", "U", "s", "e", "r", "s", "/", "t", "m", "c", "k", "n", "i", "g",
      "h", "t", "/", "r", "e", "p", "o", "s", "/", "o", "b", "s", "i", "d",
      "i", "a", "n">>

RECURSIVE GetAllFiles(_, _, _)
RECURSIVE ForEachFile(_, _, _, _, _)

\* the callback of files.forEach(...) in getAllFiles for one entry: count and
\* allFiles after it, from their values before it
VisitFile(fs, dir, file, count, allFiles) ==
    LET dirWithSlash == IF EndsWith(dir, <<"/">>) THEN dir ELSE dir \o <<"/">>
        currentLocation == dirWithSlash \o file.name
    IN  IF StartsWith(file.name, <<".">>) \/ file.kind = "symlink"
        THEN [count |-> count, allFiles |-> allFiles]
        ELSE IF file.kind = "dir"
        THEN [count |-> count + 1,
              allFiles |-> allFiles \o GetAllFiles(fs, currentLocation,
                                                   Len(allFiles) + count + 1)]
        ELSE IF EndsWith(file.name, <<".", "m", "d">>)
        THEN [count |-> count, allFiles |-> Append(allFiles, currentLocation)]
        ELSE [count |-> count, allFiles |-> allFiles]

\* files.forEach(...) of getAllFiles over the entries files, in order, with
\* the values count and allFiles have when the visit starts: count and
\* allFiles when it ends.  The first half of the entries is visited, then the
\* second, so that a long listing does not nest the evaluation as deep as it
\* is long.
ForEachFile(fs, dir, files, count, allFiles) ==
    IF files = <<>> THEN [count |-> count, allFiles |-> allFiles]
    ELSE IF Len(files) = 1
    THEN VisitFile(fs, dir, files[1], count, allFiles)
    ELSE LET half  == Len(files) \div 2
             first == ForEachFile(fs, dir, SubSeq(files, 1, half),
                                  count, allFiles)
         IN  After(first,
                   ForEachFile(fs, dir, SubSeq(files, half + 1, Len(files)),
                               first.count, first.allFiles))

GetAllFiles(fs, dir, count) ==
    IF count > CountCeiling THEN <<>>
    ELSE ForEachFile(fs, dir, fs.dirs[dir], count, <<>>).allFiles

\* the MarkdownFile objects onInitialized builds, as [uri, text]
DiscoveredFiles(fs) ==
    LET allFiles == GetAllFiles(fs, DiscoveryDir, 0)
    IN  [i \in 1..Len(allFiles) |->
            [uri |-> allFiles[i], text |-> fs.texts[allFiles[i]]]]

-----------------------------------------------------------------------------
(* The completion lists.                                                   *)

\* CompletionItemKind.Text
CompletionItemKindText == 1

\* headerCompletionResults as it would be if it numbered the entries from 1
HeaderCompletionResultsOneBased(ns, filename) ==
    LET at == FindNote(ns, filename)
    IN  IF at = 0 THEN <<>>
        ELSE [i \in 1..Len(ns[at].headings) |->
                [label |-> ns[at].headings[i].title,
                 king  |-> CompletionItemKindText,
                 data  |-> i]]

\* headerCompletionResults(filename)
HeaderCompletionResults(ns, filename) ==
    LET at == FindNote(ns, filename)
    IN  IF at = 0 THEN <<>>
        ELSE [i \in 1..Len(ns[at].headings) |->
                [label |-> ns[at].headings[i].title,
                 king  |-> CompletionItemKindText,
                 data  |-> i - 1]]

\* fileCompletionResults as it would be if it stopped one note early
FileCompletionResultsShort(ns) ==
    [i \in 1..(Len(ns) - 1) |->
        [label |-> ns[i].filename, kind |-> CompletionItemKindText, data |-> i - 1]]

\* fileCompletionResults()
FileCompletionResults(ns) ==
    [i \in 1..Len(ns) |->
        [label |-> ns[i].filename, kind |-> CompletionItemKindText, data |-> i - 1]]

-----------------------------------------------------------------------------
(* The link-context scan of onCompletion.                                  *)

exitChars == {"\n", "\r\n"}

\* the chain as it would be without its "#" branch
CharBranchNoHash(ch) ==
    IF ch = "[" THEN "open"
    ELSE IF ch = "]" THEN "close"
    ELSE "other"

\* the chain as it would be without its "]" branch
CharBranchNoClose(ch) ==
    IF ch = "#" THEN "hash"
    ELSE IF ch = "[" THEN "open"
    ELSE "other"

\* which branch of the if / else-if chain a character takes
CharBranch(ch) ==
    IF ch = "#" THEN "hash"
    ELSE IF ch = "[" THEN "open"
    ELSE IF ch = "]" THEN "close"
    ELSE "other"

\* the substring as it would be if it started one character early
HeaderFilenameOffByOne(text, pos, marker) == Substring(text, pos + 1, marker)

\* docText.substring(currentPosition+2, headingMarkerPosition)
HeaderFilename(text, pos, marker) == Substring(text, pos + 2, marker)

\* the position the loop reads next
PreviousPosition(pos) == pos - 1

\* the while condition of the do-while loop
LoopContinues(ch) == ch \notin exitChars

-----------------------------------------------------------------------------
(* What the host can send.                                                 *)

\* root URIs of the initialize request
RootUris == {<<"/", "r">>, <<"/">>}

UriA == <<"/", "r", "/", "a", ".", "m", "d">>
UriB == <<"/", "r", "/", "b", ".", "m", "d">>
\* a second URI whose filename is that of UriA
UriA2 == <<"/", "r", "/", "a">>

DocUris == {UriA, UriB, UriA2}

TextA == <<"#", " ", "a">>
TextB == <<"#", "#", " ", "b">>
TextC == <<"[", "[", "a", "#">>

\* document texts of the event specification
DocTexts == {TextA, TextB, TextC}

FileN == DiscoveryDir \o <<"/", "n", ".", "m", "d">>
FileH == DiscoveryDir \o <<"/", ".", "h", ".", "m", "d">>
DirD  == DiscoveryDir \o <<"/", "d">>
FileM == DirD \o <<"/", "m", ".", "m", "d">>

FsEmpty == [dirs |-> (DiscoveryDir :> <<>>), texts |-> <<>>]

FsTree ==
    [dirs  |-> (DiscoveryDir :>
                  << [name |-> <<".", "h", ".", "m", "d">>, kind |-> "file"],
                     [name |-> <<"d">>, kind |-> "dir"],
                     [name |-> <<"l", ".", "m", "d">>, kind |-> "symlink"],
                     [name |-> <<"n", ".", "m", "d">>, kind |-> "file"],
                     [name |-> <<"t", ".", "t", "x", "t">>, kind |-> "file"] >>)
               @@ (DirD :> << [name |-> <<"m", ".", "m", "d">>, kind |-> "file"] >>),
     texts |-> (FileN :> TextA) @@ (FileH :> TextA) @@ (FileM :> TextB)]

\* what the walked directory can hold
FileSystems == {FsEmpty, FsTree}

\* the decimal digits of n
DigitChars == <<"0", "1", "2", "3", "4", "5", "6", "7", "8", "9">>

RECURSIVE Digits(_)
Digits(n) ==
    IF n < 10 THEN <<DigitChars[n + 1]>>
    ELSE Append(Digits(n \div 10), DigitChars[(n % 10) + 1])

\* a walked directory that lists n markdown files f1.md .. fn.md and then
\* the subdirectory z, which holds m.md
WideName(i) == <<"f">> \o Digits(i) \o <<".", "m", "d">>
WidePath(i) == DiscoveryDir \o <<"/">> \o WideName(i)
DirZ   == DiscoveryDir \o <<"/", "z">>
FileZM == DirZ \o <<"/", "m", ".", "m", "d">>

FsWide(n) ==
    [dirs  |-> (DiscoveryDir :>
                  [i \in 1..(n + 1) |->
                      IF i <= n THEN [name |-> WideName(i), kind |-> "file"]
                      ELSE [name |-> <<"z">>, kind |-> "dir"]])
               @@ (DirZ :> << [name |-> <<"m", ".", "m", "d">>, kind |-> "file"] >>),
     texts |-> [path \in {WidePath(i) : i \in 1..n} \cup {FileZM} |->
                   IF path = FileZM THEN TextB ELSE <<>>]]

\* how many files stand before z: few, or as many as the ceiling lets
\* through, or one more
WalkSizes == (0..MaxSmallDir) \cup {CountCeiling - 1, CountCeiling}

WalkFileSystems == {FsWide(n) : n \in WalkSizes}

\* all texts over alphabet of length at most n
TextsUpTo(alphabet, n) == UNION {[1..k -> alphabet] : k \in 0..n}

\* document texts of the scanner specification
ScanTexts == TextsUpTo({"[", "]", "#", "\n", "a"}, MaxLen)

\* document texts of the heading-extraction specification
HeadTexts == TextsUpTo({"#", " ", "a", "\n"}, MaxHeadLen)

-----------------------------------------------------------------------------
(* The text document manager.                                              *)

\* position of uri in documents, 0 when it is not open
DocIndex(docs, uri) ==
    LET hits == {i \in 1..Len(docs) : docs[i].uri = uri}
    IN  IF hits = {} THEN 0 ELSE CHOOSE i \in hits : TRUE

\* documents without the one at position at
RemoveAt(docs, at) == SubSeq(docs, 1, at - 1) \o SubSeq(docs, at + 1, Len(docs))

-----------------------------------------------------------------------------
(* The handlers.                                                           *)

Init ==
    /\ phase = "created"
    /\ rootUri = <<"/">>
    /\ hasConfigurationCapability = FALSE
    /\ notes = <<>>
    /\ documents = <<>>
    /\ pc = "idle"
    /\ docText = <<>>
    /\ positionOffset = 0
    /\ currentPosition = 0
    /\ currentChar = Undefined
    /\ afterHeadingMarker = FALSE
    /\ headingMarkerPosition = 0
    /\ firstClosingBraceHit = FALSE
    /\ firstOpeningBraceHit = FALSE
    /\ result = <<>>
    /\ returnedBy = "none"
    /\ minRead = 0
    /\ lastText = <<>>

\* connection.onInitialize
\* (configuration: whether the client announced workspace.configuration)
Initialize(root, configuration) ==
    /\ phase = "created"
    /\ phase' = "initialize"
    /\ rootUri' = root
    /\ hasConfigurationCapability' = configuration
    /\ UNCHANGED <<notes, documents, lastText>>
    /\ UNCHANGED scanVars

\* connection.onInitialized
Initialized(fs) ==
    /\ phase = "initialize"
    /\ phase' = "initialized"
    /\ notes' = AddAllToList(notes, rootUri, DiscoveredFiles(fs))
    /\ lastText' = RecordAllTexts(lastText, rootUri, DiscoveredFiles(fs))
    /\ UNCHANGED <<rootUri, hasConfigurationCapability, documents>>
    /\ UNCHANGED scanVars

\* documents.onDidChangeContent
OnDidChangeContent(uri, text) ==
    /\ notes' = AddNoteToList(notes, rootUri, uri, text)
    /\ lastText' = RecordText(lastText, rootUri, uri, text)

\* textDocument/didOpen: the manager stores the document and emits
\* onDidChangeContent
DidOpen(uri, text) ==
    /\ phase = "initialized"
    /\ pc = "idle"
    /\ DocIndex(documents, uri) = 0
    /\ Len(documents) < MaxOpen
    /\ documents' = Append(documents, [uri |-> uri, text |-> text])
    /\ OnDidChangeContent(uri, text)
    /\ UNCHANGED <<phase, rootUri, hasConfigurationCapability>>
    /\ UNCHANGED scanVars

\* textDocument/didChange: the manager updates the document and emits
\* onDidChangeContent
DidChange(uri, text) ==
    /\ phase = "initialized"
    /\ pc = "idle"
    /\ DocIndex(documents, uri) # 0
    /\ documents' = [documents EXCEPT ![DocIndex(documents, uri)].text = text]
    /\ OnDidChangeContent(uri, text)
    /\ UNCHANGED <<phase, rootUri, hasConfigurationCapability>>
    /\ UNCHANGED scanVars

\* didClose as it would be if closing a document dropped its note
DidCloseForgetting(uri) ==
    /\ phase = "initialized"
    /\ pc = "idle"
    /\ DocIndex(documents, uri) # 0
    /\ documents' = RemoveAt(documents, DocIndex(documents, uri))
    /\ notes' = SelectSeq(notes,
                    LAMBDA n : n.filename # NoteFilename(rootUri, uri))
    /\ UNCHANGED <<phase, rootUri, hasConfigurationCapability, lastText>>
    /\ UNCHANGED scanVars

\* textDocument/didClose: the manager drops the document; documents.onDidClose
\* deletes its (never filled) cached settings
DidClose(uri) ==
    /\ phase = "initialized"
    /\ pc = "idle"
    /\ DocIndex(documents, uri) # 0
    /\ documents' = RemoveAt(documents, DocIndex(documents, uri))
    /\ UNCHANGED <<phase, rootUri, hasConfigurationCapability, notes,
                   lastText>>
    /\ UNCHANGED scanVars

\* what change.settings of a didChangeConfiguration notification can be
ConfigSettings == {"null", "object"}

\* connection.onDidChangeConfiguration.  With the capability the handler
\* clears documentSettings; without it, it reads
\* change.settings.languageServerExample, which throws when settings is null
\* and ends the handler before documents.all().forEach(addNoteToList).
\* (documentSettings is filled by getDocumentSettings only and globalSettings
\* is read by it only; nothing calls getDocumentSettings, so the map is
\* always empty and the value assigned to globalSettings is never read.)
DidChangeConfiguration(settings) ==
    /\ phase = "initialized"
    /\ pc = "idle"
    /\ IF ~hasConfigurationCapability /\ settings = "null"
       THEN /\ pc' = "returned"
            /\ result' = <<>>
            /\ returnedBy' = "threw"
            /\ UNCHANGED <<notes, lastText>>
            /\ UNCHANGED <<docText, positionOffset, currentPosition,
                           currentChar, afterHeadingMarker,
                           headingMarkerPosition, firstClosingBraceHit,
                           firstOpeningBraceHit, minRead>>
       ELSE /\ notes' = AddAllToList(notes, rootUri, documents)
            /\ lastText' = RecordAllTexts(lastText, rootUri, documents)
            /\ UNCHANGED scanVars
    /\ UNCHANGED <<phase, rootUri, hasConfigurationCapability, documents>>

\* connection.onCompletionResolve: the item it returns
\* (the fields detail and documentation are assigned on the item it was
\* given; every other field of the item stays)
CompletionResolveItem(item) ==
    LET assigned(detail, documentation) ==
            [f \in DOMAIN item \cup {"detail", "documentation"} |->
                IF f = "detail" THEN detail
                ELSE IF f = "documentation" THEN documentation
                ELSE item[f]]
    IN  IF item.data = 1
        THEN assigned("TypeScript details", "TypeScript documentation")
        ELSE IF item.data = 2
        THEN assigned("JavaScript details", "JavaScript documentation")
        ELSE item

\* connection.onCompletionResolve
CompletionResolve(item) ==
    /\ phase = "initialized"
    /\ pc = "idle"
    /\ pc' = "returned"
    /\ result' = <<CompletionResolveItem(item)>>
    /\ returnedBy' = "resolve"
    /\ UNCHANGED <<docText, positionOffset, currentPosition, currentChar,
                   afterHeadingMarker, headingMarkerPosition,
                   firstClosingBraceHit, firstOpeningBraceHit, minRead>>
    /\ UNCHANGED <<phase, rootUri, hasConfigurationCapability, notes,
                   documents, lastText>>

\* connection.onCompletion, up to the do-while loop
Completion(uri, offset) ==
    /\ phase = "initialized"
    /\ pc = "idle"
    /\ IF DocIndex(documents, uri) = 0
       THEN /\ pc' = "returned"
            /\ result' = <<>>
            /\ returnedBy' = "nodoc"
            /\ UNCHANGED <<docText, positionOffset, currentPosition,
                           currentChar, afterHeadingMarker,
                           headingMarkerPosition, firstClosingBraceHit,
                           firstOpeningBraceHit, minRead>>
       ELSE LET text == documents[DocIndex(documents, uri)].text
            IN  /\ offset \in 0..Len(text)
                /\ pc' = "scan"
                /\ docText' = text
                /\ positionOffset' = offset
                /\ currentPosition' = offset
                /\ currentChar' = CharAt(text, offset)
                /\ minRead' = offset
                /\ afterHeadingMarker' = FALSE
                /\ headingMarkerPosition' = 0
                /\ firstClosingBraceHit' = FALSE
                /\ firstOpeningBraceHit' = FALSE
                /\ UNCHANGED <<result, returnedBy>>
    /\ UNCHANGED <<phase, rootUri, hasConfigurationCapability, notes,
                   documents, lastText>>

\* the handler returns list from the return statement named by
Return(list, by) ==
    /\ pc' = "returned"
    /\ result' = list
    /\ returnedBy' = by
    /\ UNCHANGED <<currentPosition, currentChar, minRead>>

\* the end of the loop body and the while test
Advance ==
    /\ currentPosition' = PreviousPosition(currentPosition)
    /\ currentChar' = CharAt(docText, currentPosition')
    /\ minRead' = Min(minRead, currentPosition')
    /\ IF LoopContinues(currentChar')
       THEN /\ pc' = "scan"
            /\ UNCHANGED <<result, returnedBy>>
       ELSE /\ pc' = "returned"
            /\ result' = <<>>
            /\ returnedBy' = "exit"

\* one iteration of the do-while loop of onCompletion
ScanStep ==
    /\ pc = "scan"
    /\ currentPosition >= -MaxUnderrun
    /\ CASE CharBranch(currentChar) = "hash" ->
              /\ afterHeadingMarker' = TRUE
              /\ headingMarkerPosition' = currentPosition
              /\ UNCHANGED <<firstClosingBraceHit, firstOpeningBraceHit>>
              /\ Advance
         [] CharBranch(currentChar) = "open" ->
              IF firstOpeningBraceHit
              THEN /\ IF afterHeadingMarker
                      THEN Return(HeaderCompletionResults(notes,
                                    HeaderFilename(docText, currentPosition,
                                                   headingMarkerPosition)),
                                  "header")
                      ELSE Return(FileCompletionResults(notes), "file")
                   /\ UNCHANGED <<afterHeadingMarker, headingMarkerPosition,
                                  firstClosingBraceHit, firstOpeningBraceHit>>
              ELSE /\ firstOpeningBraceHit' = TRUE
                   /\ UNCHANGED <<afterHeadingMarker, headingMarkerPosition,
                                  firstClosingBraceHit>>
                   /\ Advance
         [] CharBranch(currentChar) = "close" ->
              IF firstClosingBraceHit
              THEN /\ Return(<<>>, "closed")
                   /\ UNCHANGED <<afterHeadingMarker, headingMarkerPosition,
                                  firstClosingBraceHit, firstOpeningBraceHit>>
              ELSE /\ firstClosingBraceHit' = TRUE
                   /\ UNCHANGED <<afterHeadingMarker, headingMarkerPosition,
                                  firstOpeningBraceHit>>
                   /\ Advance
         [] OTHER ->
              /\ firstClosingBraceHit' = FALSE
              /\ firstOpeningBraceHit' = FALSE
              /\ UNCHANGED <<afterHeadingMarker, headingMarkerPosition>>
              /\ Advance
    /\ UNCHANGED <<docText, positionOffset>>
    /\ UNCHANGED <<phase, rootUri, hasConfigurationCapability, notes,
                   documents, lastText>>

\* the response leaves the server and the handler's frame is gone
Respond ==
    /\ pc = "returned"
    /\ pc' = "idle"
    /\ docText' = <<>>
    /\ positionOffset' = 0
    /\ currentPosition' = 0
    /\ currentChar' = Undefined
    /\ afterHeadingMarker' = FALSE
    /\ headingMarkerPosition' = 0
    /\ firstClosingBraceHit' = FALSE
    /\ firstOpeningBraceHit' = FALSE
    /\ result' = <<>>
    /\ returnedBy' = "none"
    /\ minRead' = 0
    /\ UNCHANGED <<phase, rootUri, hasConfigurationCapability, notes,
                   documents, lastText>>

\* length of the open document uri, 0 when it is not open
OpenLength(uri) ==
    IF DocIndex(documents, uri) = 0 THEN 0
    ELSE Len(documents[DocIndex(documents, uri)].text)

\* the items a client can ask to resolve: those of the file list and of the
\* heading lists
ResolvableItems ==
    {FileCompletionResults(notes)[i] : i \in 1..Len(notes)}
    \cup UNION {{HeaderCompletionResults(notes, notes[i].filename)[k] :
                    k \in 1..Len(notes[i].headings)} : i \in 1..Len(notes)}

Next ==
    \/ \E root \in RootUris, configuration \in BOOLEAN :
          Initialize(root, configuration)
    \/ \E fs \in FileSystems : Initialized(fs)
    \/ \E uri \in DocUris, text \in DocTexts : DidOpen(uri, text)
    \/ \E uri \in DocUris, text \in DocTexts : DidChange(uri, text)
    \/ \E uri \in DocUris : DidClose(uri)
    \/ \E settings \in ConfigSettings : DidChangeConfiguration(settings)
    \/ \E uri \in DocUris : \E offset \in 0..OpenLength(uri) : Completion(uri, offset)
    \/ ScanStep
    \/ \E item \in ResolvableItems : CompletionResolve(item)
    \/ Respond

Spec == Init /\ [][Next]_vars

-----------------------------------------------------------------------------
(* The scanner specification: the server after initialize("/r"), an empty  *)
(* walk and the opening of UriA with two headings; UriB is then opened     *)
(* with any text of ScanTexts and completions are requested in it.         *)

TextTwo == <<"#", " ", "a", "\n", "\n", "#", "#", " ", "b">>

InitScan ==
    /\ phase = "initialized"
    /\ rootUri = <<"/", "r">>
    /\ hasConfigurationCapability = FALSE
    /\ notes = AddNoteToList(<<>>, <<"/", "r">>, UriA, TextTwo)
    /\ documents = <<[uri |-> UriA, text |-> TextTwo]>>
    /\ pc = "idle"
    /\ docText = <<>>
    /\ positionOffset = 0
    /\ currentPosition = 0
    /\ currentChar = Undefined
    /\ afterHeadingMarker = FALSE
    /\ headingMarkerPosition = 0
    /\ firstClosingBraceHit = FALSE
    /\ firstOpeningBraceHit = FALSE
    /\ result = <<>>
    /\ returnedBy = "none"
    /\ minRead = 0
    /\ lastText = RecordText(<<>>, <<"/", "r">>, UriA, TextTwo)

NextScan ==
    \/ /\ DocIndex(documents, UriB) = 0
       /\ \E text \in ScanTexts : DidOpen(UriB, text)
    \/ \E offset \in 0..OpenLength(UriB) : Completion(UriB, offset)
    \/ ScanStep
    \/ Respond

SpecScan == InitScan /\ [][NextScan]_vars

-----------------------------------------------------------------------------
(* The heading specification: the server after initialize("/r") and an     *)
(* empty walk; UriA is opened with any text of HeadTexts.                  *)

InitHeadings ==
    /\ phase = "initialized"
    /\ rootUri = <<"/", "r">>
    /\ hasConfigurationCapability = FALSE
    /\ notes = <<>>
    /\ documents = <<>>
    /\ pc = "idle"
    /\ docText = <<>>
    /\ positionOffset = 0
    /\ currentPosition = 0
    /\ currentChar = Undefined
    /\ afterHeadingMarker = FALSE
    /\ headingMarkerPosition = 0
    /\ firstClosingBraceHit = FALSE
    /\ firstOpeningBraceHit = FALSE
    /\ result = <<>>
    /\ returnedBy = "none"
    /\ minRead = 0
    /\ lastText = <<>>

NextHeadings ==
    /\ documents = <<>>
    /\ \E text \in HeadTexts : DidOpen(UriA, text)

SpecHeadings == InitHeadings /\ [][NextHeadings]_vars

-----------------------------------------------------------------------------
(* The walk specification: the server is initialized over a directory of    *)
(* WalkFileSystems.                                                         *)

NextWalk ==
    \/ \E root \in RootUris, configuration \in BOOLEAN :
          Initialize(root, configuration)
    \/ /\ phase = "initialize"
       /\ \E fs \in WalkFileSystems : Initialized(fs)

SpecWalk == Init /\ [][NextWalk]_vars

-----------------------------------------------------------------------------
(* Properties.                                                             *)

\* the filenames of the index, in order
Filenames(ns) == [i \in 1..Len(ns) |-> ns[i].filename]

\* C1: the index holds at most one Note per identifier, and each Note's
\* headings are exactly those extracted from the text upserted last under
\* its identifier.
C1_OneNotePerIdentifierLatestHeadings ==
    /\ \A i, j \in 1..Len(notes) :
          notes[i].filename = notes[j].filename => i = j
    /\ \A i \in 1..Len(notes) :
          /\ notes[i].filename \in DOMAIN lastText
          /\ notes[i].headings =
                AddHeadingsToNote(
                    FindHeadingsInDocument(lastText[notes[i].filename]))

\* two open documents share one identifier and were upserted with different
\* heading lists, the one upserted last having one
C1_Witness ==
    \E i, j \in 1..Len(documents) :
        /\ documents[i].uri # documents[j].uri
        /\ NoteFilename(rootUri, documents[i].uri)
              = NoteFilename(rootUri, documents[j].uri)
        /\ FindHeadingsInDocument(documents[i].text)
              # FindHeadingsInDocument(documents[j].text)
        /\ lastText[NoteFilename(rootUri, documents[i].uri)] = documents[i].text
        /\ FindHeadingsInDocument(documents[i].text) # <<>>
        /\ FindHeadingsInDocument(documents[j].text) # <<>>

\* the handler is in, or has just returned from, the do-while loop
InScan ==
    \/ pc = "scan"
    \/ pc = "returned" /\ returnedBy \in {"header", "file", "closed", "exit"}

\* C2 (as claimed): a scan that has moved below offset 0 has stopped.
C2_ScanStopsAtBufferStart == pc = "scan" => currentPosition >= 0

\* C3 (as claimed): no character is read at an offset below 0.
C3_NoReadBelowZero == minRead >= 0

\* C4 (as claimed): a request at cursor offset 0 has nothing to scan: it never
\* moves below offset 0 and returns the empty list.
C4_CursorZeroIsNoContext ==
    (InScan /\ positionOffset = 0) =>
        /\ pc = "scan" => currentPosition >= 0
        /\ pc = "returned" => result = <<>>

\* characters the parts of a link may not hold
LinkSpecials == {"[", "]", "#", "\n"}

\* no character of text at the offsets from .. to-1 is in chars
FreeOf(text, from, to, chars) ==
    \A i \in from..(to - 1) : CharAt(text, i) \notin chars

\* text = P [[ N # H, "[[" at offset p, "#" at offset m, N and H free of
\* specials
IsOpenHeadingLink(text, p, m) ==
    /\ 0 =< p /\ p + 2 =< m /\ m < Len(text)
    /\ CharAt(text, p) = "[" /\ CharAt(text, p + 1) = "["
    /\ CharAt(text, m) = "#"
    /\ FreeOf(text, p + 2, m, LinkSpecials)
    /\ FreeOf(text, m + 1, Len(text), LinkSpecials)

\* result lists, in order, the headings of the Note named id (nothing when
\* there is none)
ResultListsHeadingsOf(id) ==
    LET hits == {i \in 1..Len(notes) : notes[i].filename = id}
    IN  IF hits = {} THEN result = <<>>
        ELSE \A i \in hits :
                /\ Len(result) = Len(notes[i].headings)
                /\ \A k \in 1..Len(result) :
                      result[k].label = notes[i].headings[k].title

\* C5: for a text P [[ N # H with the cursor at its end the scan stops at the
\* "[[", takes the heading branch with identifier N and returns the headings
\* of the Note named N.
C5_OpenHeadingLinkListsHeadings ==
    \A p, m \in 0..Len(docText) :
        (InScan /\ positionOffset = Len(docText)
                /\ IsOpenHeadingLink(docText, p, m)) =>
            /\ pc = "scan" => currentPosition >= p
            /\ pc = "returned" =>
                  /\ returnedBy = "header"
                  /\ ResultListsHeadingsOf(SubSeq(docText, p + 3, m))

\* "a[[a#" completed at its end returned the two headings of note a
C5_Witness ==
    /\ pc = "returned"
    /\ returnedBy = "header"
    /\ positionOffset = Len(docText)
    /\ \E p, m \in 1..Len(docText) :
          /\ IsOpenHeadingLink(docText, p, m)
          /\ SubSeq(docText, p + 3, m) = <<"a">>
    /\ Len(result) = 2

\* text = P [[ B, "[[" at offset p, B free of specials
IsOpenFileLink(text, p) ==
    /\ 0 =< p /\ p + 2 =< Len(text)
    /\ CharAt(text, p) = "[" /\ CharAt(text, p + 1) = "["
    /\ FreeOf(text, p + 2, Len(text), LinkSpecials)

\* C6: for a text P [[ B with the cursor at its end the scan stops at the
\* "[[", takes the file branch and returns one entry per Note of the index.
C6_OpenFileLinkListsNotes ==
    \A p \in 0..Len(docText) :
        (InScan /\ positionOffset = Len(docText)
                /\ IsOpenFileLink(docText, p)) =>
            /\ pc = "scan" => currentPosition >= p
            /\ pc = "returned" =>
                  /\ returnedBy = "file"
                  /\ Len(result) = Len(notes)
                  /\ \A i \in 1..Len(notes) :
                        result[i].label = notes[i].filename

\* P [[ B with P and B not empty returned both notes of the index
C6_Witness ==
    /\ pc = "returned"
    /\ returnedBy = "file"
    /\ positionOffset = Len(docText)
    /\ \E p \in 1..Len(docText) :
          IsOpenFileLink(docText, p) /\ p + 2 < Len(docText)
    /\ Len(result) = 2

\* text = P [[ N ]] T, "[[" at offset p, "]]" at offset q, T free of
\* brackets and newlines
IsClosedLink(text, p, q) ==
    /\ 0 =< p /\ p + 2 =< q /\ q + 2 =< Len(text)
    /\ CharAt(text, p) = "[" /\ CharAt(text, p + 1) = "["
    /\ CharAt(text, q) = "]" /\ CharAt(text, q + 1) = "]"
    /\ FreeOf(text, q + 2, Len(text), {"[", "]", "\n"})

\* C7: for a text P [[ N ]] T with the cursor at its end the scan stops at
\* the "]]" and returns the empty list from the closing-bracket branch, never
\* file or heading completions.
C7_ClosedLinkIsNoContext ==
    \A p, q \in 0..Len(docText) :
        (InScan /\ positionOffset = Len(docText)
                /\ IsClosedLink(docText, p, q)) =>
            /\ pc = "scan" => currentPosition >= q
            /\ pc = "returned" =>
                  /\ returnedBy = "closed"
                  /\ result = <<>>

\* [[ N ]] T with T not empty returned nothing although the index has notes
C7_Witness ==
    /\ pc = "returned"
    /\ returnedBy = "closed"
    /\ positionOffset = Len(docText)
    /\ \E p, q \in 0..Len(docText) :
          IsClosedLink(docText, p, q) /\ q + 2 < Len(docText)
    /\ result = <<>>
    /\ Len(notes) = 2

\* the content of an ATX heading line: what follows the hashes and the space
AtxContent(line) == SubSeq(line, LeadingHashes(line) + 2, Len(line))

\* one or more "#", a space, then content
IsAtxLine(line) ==
    /\ LeadingHashes(line) >= 1
    /\ CharAt(line, LeadingHashes(line)) = " "
    /\ Trim(AtxContent(line)) # <<>>

\* the ATX heading lines of text, as positions in its list of lines
AtxLines(text) == {k \in 1..Len(Split(text)) : IsAtxLine(Split(text)[k])}

\* the headings stored for the open document at position i
HeadingsOfDocument(i) ==
    notes[FindNote(notes, NoteFilename(rootUri, documents[i].uri))].headings

\* hashes, a space and then nothing but white space
IsBlankHeadingLine(line) ==
    /\ LeadingHashes(line) >= 1
    /\ CharAt(line, LeadingHashes(line)) = " "
    /\ Trim(AtxContent(line)) = <<>>

\* C8 (as claimed): an opened document's Note has exactly one heading per ATX
\* heading line of its text, consecutive heading lines included (texts with a
\* heading line of blank content set aside).
C8_OneHeadingPerAtxLine ==
    \A i \in 1..Len(documents) :
        (\A k \in 1..Len(Split(documents[i].text)) :
            ~IsBlankHeadingLine(Split(documents[i].text)[k]))
        => Len(HeadingsOfDocument(i)) = Cardinality(AtxLines(documents[i].text))

\* C9 (as claimed): every stored title is the trimmed content of an ATX
\* heading line of the text, all of its leading hashes removed.
C9_TitleIsTrimmedContent ==
    \A i \in 1..Len(documents) :
        \A k \in 1..Len(HeadingsOfDocument(i)) :
            HeadingsOfDocument(i)[k].title \in
                {Trim(AtxContent(Split(documents[i].text)[l])) :
                    l \in AtxLines(documents[i].text)}

\* s is an initial segment of t
IsPrefix(s, t) == Len(s) =< Len(t) /\ SubSeq(t, 1, Len(s)) = s

\* C10: no step removes or moves a Note; closing a document, a completion
\* request, a resolve request and a configuration change leave the sequence
\* of identifiers as it is, and an open or change event appends at most the
\* one identifier of its document.  (A step that leaves notes as it is
\* satisfies all of it.)
C10_NotesNeverRemovedNorMoved ==
    [][ \/ notes' = notes
        \/ /\ IsPrefix(Filenames(notes), Filenames(notes'))
           /\ ( \/ \E uri \in DocUris : DidClose(uri)
                \/ \E uri \in DocUris :
                     \E offset \in 0..OpenLength(uri) : Completion(uri, offset)
                \/ ScanStep
                \/ \E item \in ResolvableItems : CompletionResolve(item)
                \/ Respond
                \/ \E settings \in ConfigSettings :
                     DidChangeConfiguration(settings) )
              => Filenames(notes') = Filenames(notes)
           /\ \A uri \in DocUris, text \in DocTexts :
                 (DidOpen(uri, text) \/ DidChange(uri, text)) =>
                     Filenames(notes') \in
                         {Filenames(notes),
                          Append(Filenames(notes), NoteFilename(rootUri, uri))}
      ]_vars

\* a document was opened second and closed again: its Note is still the last
\* of the index although no open document has its identifier
C10_Witness ==
    /\ Len(notes) >= 2
    /\ \E uri \in DocUris :
          /\ notes[Len(notes)].filename = NoteFilename(rootUri, uri)
          /\ \A i \in 1..Len(documents) :
                NoteFilename(rootUri, documents[i].uri)
                    # notes[Len(notes)].filename
    /\ documents # <<>>

\* list has one entry per heading of note, in order, labelled by the title
\* and carrying the 0-based position
ListsHeadings(list, note) ==
    /\ Len(list) = Len(note.headings)
    /\ \A k \in 1..Len(list) :
          /\ list[k].label = note.headings[k].title
          /\ list[k].data = k - 1

\* C11: a returned file list has one entry per Note, entry i labelled by the
\* i-th identifier and carrying its position; a returned heading list is the
\* list of the stored headings of the Note with exactly the scanned
\* identifier, or empty when there is none; and in every index state the
\* heading list of each Note's identifier lists that Note's headings.
C11_CompletionListsMirrorIndex ==
    /\ (pc = "returned" /\ returnedBy = "file") =>
          /\ Len(result) = Len(notes)
          /\ \A i \in 1..Len(notes) :
                /\ result[i].label = notes[i].filename
                /\ result[i].data = i - 1
    /\ (pc = "returned" /\ returnedBy = "header") =>
          LET id == Substring(docText, currentPosition + 2, headingMarkerPosition)
              hits == {i \in 1..Len(notes) : notes[i].filename = id}
          IN  IF hits = {} THEN result = <<>>
              ELSE \A i \in hits : ListsHeadings(result, notes[i])
    /\ \A i \in 1..Len(notes) :
          ListsHeadings(HeaderCompletionResults(notes, notes[i].filename),
                        notes[i])

\* a heading list with an entry was returned from an index of several notes
C11_Witness ==
    /\ pc = "returned"
    /\ returnedBy = "header"
    /\ Len(result) >= 1
    /\ Len(notes) >= 2

\* C12 (as claimed): every entry of a returned file or heading list has the
\* fields label, kind and data, kind being the text kind.
C12_EntriesHaveLabelKindData ==
    (pc = "returned" /\ returnedBy \in {"file", "header"}) =>
        \A k \in 1..Len(result) :
            /\ DOMAIN result[k] = {"label", "kind", "data"}
            /\ result[k].kind = CompletionItemKindText

\* the identifier as claimed: the root removed only where it is a prefix
ClaimedIdentifier(root, uri) ==
    LET f0 == IF StartsWith(uri, root) THEN SubstrFrom(uri, Len(root)) ELSE uri
        f1 == IF EndsWith(f0, extensionToRemove)
              THEN SubstrTo(f0, Len(f0) - Len(extensionToRemove))
              ELSE f0
    IN  IF StartsWith(f1, <<"/">>) THEN SubstrFrom(f1, 1) ELSE f1

\* the URIs a source can be upserted under: documents and walked files
SourceUris == DocUris \cup UNION {DOMAIN fs.texts : fs \in FileSystems}

\* C13 (as claimed): every identifier a source was upserted under is the
\* claimed identifier of one of the sources.
C13_IdentifierStripsRootPrefixOnly ==
    \A i \in 1..Len(notes) :
        notes[i].filename \in
            {ClaimedIdentifier(rootUri, uri) : uri \in SourceUris}

\* C14 (as claimed): the walk never silently drops the part of the tree
\* beyond its ceiling.  getAllFiles returns an array of paths and nothing
\* else, so there is no truncation indicator that could stand for a dropped
\* path: once discovery is done every markdown file of the walked tree is in
\* the index, and z/m.md is one in every tree of WalkFileSystems.
C14_WalkNeverSilentlyShortened ==
    phase = "initialized" =>
        \E i \in 1..Len(notes) :
            notes[i].filename = NoteFilename(rootUri, FileZM)

\* C15: every heading of every Note of the index has level 1, however many
\* "#" characters its source line started with.
C15_EveryHeadingHasLevelOne ==
    \A i \in 1..Len(notes) :
        \A k \in 1..Len(notes[i].headings) :
            notes[i].headings[k].level = 1

\* a Note holds a heading taken from a text that starts with two or more "#"
C15_Witness ==
    \E i \in 1..Len(notes) :
        /\ notes[i].filename \in DOMAIN lastText
        /\ LeadingHashes(lastText[notes[i].filename]) >= 2
        /\ Len(notes[i].headings) >= 1
        /\ notes[i].headings[1].level = 1

\* the text strictly before the cursor
BeforeCursor == SubSeq(docText, 1, positionOffset)

\* C16 (as claimed): the characters at and after the cursor do not count: a
\* request with the cursor anywhere in the text returns what the text cut at
\* the cursor gives, the file list for P [[ B, the headings of N for
\* P [[ N # H and nothing for a closed link.
C16_OnlyTextBeforeCursorCounts ==
    (pc = "returned" /\ InScan) =>
        /\ \A p \in 0..positionOffset :
              IsOpenFileLink(BeforeCursor, p) => returnedBy = "file"
        /\ \A p, m \in 0..positionOffset :
              IsOpenHeadingLink(BeforeCursor, p, m) =>
                  /\ returnedBy = "header"
                  /\ ResultListsHeadingsOf(SubSeq(docText, p + 3, m))
        /\ \A p, c \in 0..positionOffset :
              IsClosedLink(BeforeCursor, p, c) => returnedBy = "closed"

\* C17 (as claimed): the two brackets of a pair are neighbours: a scan that
\* returned a file or heading list at position p has "[" at p and p+1, and a
\* scan that returned for a closing pair at p has "]" at p and p+1.
C17_BracketPairsAreAdjacent ==
    pc = "returned" =>
        /\ returnedBy \in {"file", "header"} =>
              /\ CharAt(docText, currentPosition) = "["
              /\ CharAt(docText, currentPosition + 1) = "["
        /\ returnedBy = "closed" =>
              /\ CharAt(docText, currentPosition) = "]"
              /\ CharAt(docText, currentPosition + 1) = "]"

\* C18 (as claimed): a heading list is returned with the pair at p and the
\* marker at m where p + 2 <= m, for the identifier made of the characters
\* at p+2 .. m-1, which holds no "#".
C18_IdentifierLiesBetweenPairAndMarker ==
    (pc = "returned" /\ returnedBy = "header") =>
        LET p  == currentPosition
            m  == headingMarkerPosition
            id == HeaderFilename(docText, p, m)
        IN  /\ p + 2 =< m
            /\ id = SubSeq(docText, p + 3, m)
            /\ \A k \in 1..Len(id) : id[k] # "#"

\* offsets of the "#" characters the loop handled before it returned
HashesScanned ==
    {i \in (currentPosition + 1)..positionOffset : CharAt(docText, i) = "#"}

\* C19: the heading marker is never forgotten: a scan that returned at an
\* opening pair returned the heading list exactly when a "#" was among the
\* characters handled before the pair, and the marker is the leftmost of
\* them.
C19_HeadingMarkerIsNeverReset ==
    (pc = "returned" /\ returnedBy \in {"file", "header"}) =>
        /\ returnedBy = "header" <=> HashesScanned # {}
        /\ returnedBy = "header" =>
              /\ headingMarkerPosition \in HashesScanned
              /\ \A i \in HashesScanned : headingMarkerPosition =< i

\* a heading list was returned with two "#" handled and a single bracket
\* between the pair and the marker
C19_Witness ==
    /\ pc = "returned"
    /\ returnedBy = "header"
    /\ Cardinality(HashesScanned) >= 2
    /\ CharAt(docText, currentPosition) = "["
    /\ CharAt(docText, currentPosition + 1) = "["
    /\ \E k \in (currentPosition + 2)..(headingMarkerPosition - 1) :
          CharAt(docText, k) \in {"[", "]"}

\* no two neighbouring offsets of q+1 .. c-1 hold "[[" or "]]"
NoPairBetween(text, q, c) ==
    \A i \in (q + 1)..(c - 2) :
        ~ /\ CharAt(text, i) \in {"[", "]"}
          /\ CharAt(text, i + 1) = CharAt(text, i)

\* C20 (as claimed): with a newline at an offset q below the cursor no
\* offset below q is read, and when no pair stands between q and the cursor
\* the scan returns no file or heading list and an empty result.
C20_ScanStaysOnCursorLine ==
    \A q \in 0..(positionOffset - 1) :
        (InScan /\ CharAt(docText, q) = "\n") =>
            /\ minRead >= q
            /\ (pc = "returned" /\ NoPairBetween(docText, q, positionOffset)) =>
                  /\ returnedBy \notin {"file", "header"}
                  /\ result = <<>>

\* the first half of C20 alone: nothing is read below a newline that stands
\* below the cursor
NoReadBelowNewline ==
    \A q \in 0..(positionOffset - 1) :
        (InScan /\ CharAt(docText, q) = "\n") => minRead >= q

\* C21: an upsert is one step for every other event: after any step, and so
\* in every state a completion request can find, a Note the step appended
\* has an empty heading list only when the text it was upserted with has no
\* heading, and a Note that was there before has either the list it had or
\* the list of the text upserted last under its identifier.
C21_UpsertIsAtomic ==
    [][ /\ \A i \in 1..Len(notes') : notes'[i].filename \in DOMAIN lastText'
        /\ \/ notes' = notes
           \/ \A i \in 1..Len(notes') :
                 LET f == notes'[i].filename
                 IN  /\ i > Len(notes) =>
                           (notes'[i].headings = <<>> =>
                               FindHeadingsInDocument(lastText'[f]) = <<>>)
                     /\ i =< Len(notes) =>
                           notes'[i].headings \in
                               {notes[i].headings,
                                AddHeadingsToNote(
                                    FindHeadingsInDocument(lastText'[f]))}
      ]_vars

\* a completion request can be made while the index holds the Note of an
\* open document with the headings of that document's text, next to a Note
\* of an open document without headings
C21_Witness ==
    /\ phase = "initialized"
    /\ pc = "idle"
    /\ \E d, e \in 1..Len(documents) :
          LET at == FindNote(notes, NoteFilename(rootUri, documents[d].uri))
              bt == FindNote(notes, NoteFilename(rootUri, documents[e].uri))
          IN  /\ at # 0 /\ bt # 0 /\ at # bt
              /\ FindHeadingsInDocument(documents[d].text) # <<>>
              /\ notes[at].headings =
                    AddHeadingsToNote(FindHeadingsInDocument(documents[d].text))
              /\ FindHeadingsInDocument(documents[e].text) = <<>>
              /\ notes[bt].headings = <<>>

\* C22: upserting is idempotent: from every index the server has when it
\* takes an event, handling an event (URI, text) a second time leaves the
\* index as the first handling left it, and so does re-adding every open
\* document a second time.
C22_UpsertIsIdempotent ==
    pc = "idle" =>
        /\ \A uri \in DocUris, text \in DocTexts :
              LET once == AddNoteToList(notes, rootUri, uri, text)
              IN  AddNoteToList(once, rootUri, uri, text) = once
        /\ LET once == AddAllToList(notes, rootUri, documents)
           IN  AddAllToList(once, rootUri, documents) = once

\* two documents are open, the index holds Notes with headings, and handling
\* the event of an open document again leaves the index as it is
C22_Witness ==
    /\ pc = "idle"
    /\ Len(documents) >= 2
    /\ \E i \in 1..Len(notes) : notes[i].headings # <<>>
    /\ \E d \in 1..Len(documents) :
          /\ FindHeadingsInDocument(documents[d].text) # <<>>
          /\ AddNoteToList(notes, rootUri, documents[d].uri,
                           documents[d].text) = notes
    /\ AddAllToList(notes, rootUri, documents) = notes

====
